---- MODULE Spec2Model ----
(***************************************************************************)
(* A model of setup.py, the capability installer of chpatton013/router.    *)
(*                                                                         *)
(* One run of main() is modelled as a state machine.  The inputs of a run  *)
(* (log level, uid, working directory, the entries of the directory that   *)
(* holds setup.py, the filesystem under /) are chosen in Init.  Every      *)
(* external effect of the run (a child process, a filesystem call) is one  *)
(* step and is appended to the log `ops`.                                  *)
(***************************************************************************)
EXTENDS Integers, Sequences, FiniteSets, TLC

VARIABLES
    LOG_LEVEL,      \* the global LOG_LEVEL set by set_log_level
    uid,            \* os.getuid()
    cwd,            \* working directory of the process, a path
    listing,        \* os.listdir(root_dir()) in enumeration order
    capabilities,   \* the list built in main(): loaded descriptors
    pc,             \* position of the run in main()
    i,              \* index of the loop over entries / capabilities
    j,              \* index inside one capability (walk op, override, service)
    k,              \* index of the systemctl command for one service
    fs,             \* filesystem under /: path -> node
    fs_init,        \* the filesystem the run started from
    tmp,            \* temporary files that exist (tempfile.mkstemp)
    made,           \* number of temporary files created so far
    pending,        \* outcome of run() held while the finally block executes
    ops,            \* log of external effects, in order
    exit,           \* "running", or the exit status reached: "0" or "1"
    exc,            \* what ended the run: "none", "SystemExit" or an exception
    runs,           \* how many times the tool has been started
    fs_done,        \* the filesystem the previous run of the tool left
    twin_level,     \* the log level of a second run given the same inputs
    twin            \* "same" while that run has taken the same path

vars == <<LOG_LEVEL, uid, cwd, listing, capabilities, pc, i, j, k, fs, fs_init,
          tmp, made, pending, ops, exit, exc, runs, fs_done, twin_level, twin>>

(***************************************************************************)
(* Bounds.                                                                 *)
(***************************************************************************)
MaxEntries == 2     \* entries in the directory that holds setup.py

MaxRuns == 2        \* times the tool is started on the same machine

(***************************************************************************)
(* Small helpers.                                                          *)
(***************************************************************************)
Range(s) == {s[n] : n \in DOMAIN s}

Front(s) == SubSeq(s, 1, Len(s) - 1)

RECURSIVE Flatten(_)
Flatten(ss) == IF ss = <<>> THEN <<>> ELSE Head(ss) \o Flatten(Tail(ss))

RECURSIVE SeqsOver(_, _)
\* all sequences without repetition over S of length at most n
SeqsOver(S, n) ==
    IF n = 0 THEN {<<>>}
    ELSE LET shorter == SeqsOver(S, n - 1)
         IN  shorter \cup
             UNION {{Append(s, e) : e \in S \ Range(s)} :
                        s \in {t \in shorter : Len(t) = n - 1}}

(***************************************************************************)
(* Templates (pystache).  A template is a sequence of tokens: literal      *)
(* text or a {{name}} tag.  A tag renders the value of the variable,       *)
(* HTML-escaped, and renders as the empty string when undefined.           *)
(***************************************************************************)
Lit(s) == [t |-> "lit", s |-> s]

Tag(s) == [t |-> "tag", s |-> s]

HtmlEscape(v) ==
    CASE v = "&" -> "&amp;"
      [] v = "<" -> "&lt;"
      [] v = ">" -> "&gt;"
      [] OTHER   -> v

RECURSIVE render(_, _)
render(template, template_vars) ==
    IF template = <<>> THEN ""
    ELSE LET tok == Head(template)
             txt == IF tok.t = "lit" THEN tok.s
                    ELSE IF tok.s \in DOMAIN template_vars
                         THEN HtmlEscape(template_vars[tok.s])
                         ELSE ""
         IN  txt \o render(Tail(template), template_vars)

\* A path template: one template per path component.  Components that
\* render empty vanish, as "a//b" names "a/b".
RECURSIVE render_parts(_, _)
render_parts(parts, template_vars) ==
    IF parts = <<>> THEN <<>>
    ELSE LET c == render(Head(parts), template_vars)
         IN  (IF c = "" THEN <<>> ELSE <<c>>)
             \o render_parts(Tail(parts), template_vars)

(***************************************************************************)
(* Paths.  A path under / is the sequence of its components; <<>> is /.    *)
(* A key of the descriptor's `files` mapping is a path template, absolute  *)
(* or relative as written in the descriptor.                               *)
(***************************************************************************)
RelKey(parts) == [abs |-> FALSE, parts |-> parts]

AbsKey(parts) == [abs |-> TRUE, parts |-> parts]

P(names) == [n \in DOMAIN names |-> <<Lit(names[n])>>]

\* the path the kernel resolves for a rendered key: relative paths are
\* resolved against the working directory of the process
Resolve(key_parts, is_abs) == IF is_abs THEN key_parts ELSE cwd \o key_parts

\* os.path.join("/", os.path.relpath(config_path, config_root))
SystemPath(rel) == rel

(***************************************************************************)
(* The filesystem under /.                                                 *)
(***************************************************************************)
DirNode == [kind |-> "dir", content |-> "", mode |-> 493, uid |-> 0, gid |-> 0]

FileNode(content, mode) ==
    [kind |-> "file", content |-> content, mode |-> mode, uid |-> 0, gid |-> 0]

Exists(f, p) == p = <<>> \/ p \in DOMAIN f

IsDir(f, p) == p = <<>> \/ (p \in DOMAIN f /\ f[p].kind = "dir")

IsFile(f, p) == p \in DOMAIN f /\ f[p].kind = "file"

Prefixes(p) == {SubSeq(p, 1, n) : n \in 1..Len(p)}

Put(f, p, node) == [q \in DOMAIN f \cup {p} |-> IF q = p THEN node ELSE f[q]]

\* a freshly installed machine
FSbare == [p \in {<<"root">>} |-> DirNode]

\* a machine that was configured before
FSused ==
    LET files == {<<"etc", "hosts">>, <<"etc", "app.conf">>,
                  <<"root", "etc", "app.conf">>}
        dirs  == {<<"root">>, <<"etc">>, <<"root", "etc">>}
    IN  [p \in files \cup dirs |->
            IF p \in dirs THEN DirNode
            ELSE IF p = <<"etc", "hosts">> THEN FileNode("127.0.0.1", 420)
            ELSE FileNode("old", 416)]

(***************************************************************************)
(* The OS user and group databases.                                        *)
(***************************************************************************)
Passwd == [root |-> 0, www |-> 33]

Group == [root |-> 0, www |-> 33]

\* the functions the pwd and grp modules export
PwdFunctions == {"getpwnam", "getpwuid", "getpwall"}

GrpFunctions == {"getgrnam", "getgrgid", "getgrall"}

(***************************************************************************)
(* The entries that may sit beside setup.py.  desc is the state of the     *)
(* entry's capability.yaml: "none" (no such file), "ok" (doc is what       *)
(* yaml.load returns), "null" (the document is empty: yaml.load returns    *)
(* None), "malformed" (yaml.load raises), "unreadable" (open raises).      *)
(* setup says whether setup.sh is a file; config is the config.d tree:     *)
(* directory -> its dirnames and filenames in enumeration order.           *)
(***************************************************************************)
NoTree == [p \in {} |-> [dirnames |-> <<>>, filenames |-> <<>>]]

NoTemplates == [p \in {} |-> <<>>]

Entry(name, isdir, desc, doc, setup, config, templates) ==
    [name |-> name, isdir |-> isdir, desc |-> desc, doc |-> doc,
     setup |-> setup, setup_sh |-> <<Lit("echo "), Tag("port")>>,
     config |-> config, templates |-> templates]

Web ==
    Entry("web", TRUE, "ok",
          [vars |-> [port |-> "8080"],
           packages |-> <<"nginx", "curl">>,
           services |-> <<"nginx">>,
           files |-> << [key |-> RelKey(P(<<"etc", "app.conf">>)),
                         value |-> [mode |-> 384]] >>],
          TRUE,
          [p \in {<<>>, <<"etc">>} |->
              IF p = <<>> THEN [dirnames |-> <<"etc">>, filenames |-> <<>>]
              ELSE [dirnames |-> <<>>, filenames |-> <<"app.conf">>]],
          [p \in {<<"etc", "app.conf">>} |-> <<Lit("port="), Tag("port")>>])

Base ==
    Entry("base", TRUE, "ok", [packages |-> <<"curl">>],
          FALSE, NoTree, NoTemplates)

Dns ==
    Entry("dns", TRUE, "ok",
          [vars |-> [zone |-> "<"],
           services |-> <<"named", "resolvd">>,
           files |-> << [key |-> AbsKey(P(<<"etc", "hosts">>)),
                         value |-> [mode |-> 416]] >>],
          TRUE,
          [p \in {<<>>, <<"etc">>, <<"srv">>} |->
              IF p = <<>>
              THEN [dirnames |-> <<"srv", "etc">>, filenames |-> <<"motd">>]
              ELSE IF p = <<"etc">>
              THEN [dirnames |-> <<>>, filenames |-> <<"app.conf">>]
              ELSE [dirnames |-> <<>>, filenames |-> <<>>]],
          [p \in {<<"etc", "app.conf">>, <<"motd">>} |->
              IF p = <<"motd">> THEN <<Lit("hello")>>
              ELSE <<Lit("zone="), Tag("zone"), Tag("port")>>])

\* an owner override written the way the code reads it
Mail ==
    Entry("mail", TRUE, "ok",
          [packages |-> <<>>,
           files |-> << [key |-> AbsKey(P(<<"etc", "hosts">>)),
                         value |-> [owner |-> [user |-> "www", group |-> "www"],
                                    user |-> "www", group |-> "www"]] >>],
          FALSE, NoTree, NoTemplates)

\* an owner override written the way the descriptor format documents it
Ftp ==
    Entry("ftp", TRUE, "ok",
          [files |-> << [key |-> AbsKey(P(<<"etc", "hosts">>)),
                         value |-> [mode |-> 384,
                                    owner |-> [user |-> "www",
                                               group |-> "www"]]] >>],
          FALSE, NoTree, NoTemplates)

Bad == Entry("bad", TRUE, "malformed", [packages |-> <<"vim">>],
             FALSE, NoTree, NoTemplates)

Locked == Entry("locked", TRUE, "unreadable", [packages |-> <<"vim">>],
                FALSE, NoTree, NoTemplates)

Notes == Entry("notes.txt", FALSE, "none", [packages |-> <<>>],
               FALSE, NoTree, NoTemplates)

Empty == Entry("empty", TRUE, "none", [packages |-> <<>>],
               TRUE, NoTree, NoTemplates)

\* a descriptor that declares no key, written as the empty mapping {}
Bare == Entry("bare", TRUE, "ok", [x \in {} |-> <<>>],
              FALSE, NoTree, NoTemplates)

\* a descriptor that declares no key, written as an empty document
Blank == Entry("blank", TRUE, "null", [x \in {} |-> <<>>],
               FALSE, NoTree, NoTemplates)

Entries == {Web, Base, Dns, Mail, Ftp, Bare, Blank, Bad, Locked, Notes, Empty}

LogLevels == {"error", "warning", "info", "debug", "trace"}

(***************************************************************************)
(* Logging (error, debug, message).  message() passes the text through     *)
(* str.format: a text that holds the output of a child process raises      *)
(* when that output contains a brace.  "FormatError" stands for the        *)
(* ValueError, IndexError or KeyError that str.format raises.              *)
(***************************************************************************)
error_shown == LOG_LEVEL \in {"error", "warning", "info", "debug", "trace"}

debug_shown == LOG_LEVEL \in {"debug", "trace"}

\* what a child process can do: its return code and the kind of its output
Outcomes == {[rc |-> r, out |-> o] : r \in {0, 1},
                                     o \in {"none", "plain", "braces"}}

\* a mutation: error() logs and returns instead of calling quit(1)
run_result_noquit(res) ==
    IF res.out = "braces" /\ (IF res.rc = 0 THEN debug_shown ELSE error_shown)
    THEN "FormatError"
    ELSE "ok"

\* the way run() returns for one outcome of the child process:
\* "ok" (returns), "SystemExit" (error() called quit(1)) or an exception
run_result(res) ==
    IF res.rc = 0
    THEN IF debug_shown /\ res.out = "braces" THEN "FormatError" ELSE "ok"
    ELSE IF error_shown /\ res.out = "braces" THEN "FormatError"
         ELSE "SystemExit"

\* the same for a run whose LOG_LEVEL is twin_level
twin_result(res) ==
    IF res.rc = 0
    THEN IF twin_level \in {"debug", "trace"} /\ res.out = "braces"
         THEN "FormatError" ELSE "ok"
    ELSE IF twin_level \in {"error", "warning", "info", "debug", "trace"}
            /\ res.out = "braces"
         THEN "FormatError" ELSE "SystemExit"

\* a run with the same capabilities, filesystem and child processes took
\* the same path so far and run() returns the same way in both
twin_after(res) ==
    IF twin = "same" /\ twin_result(res) = run_result(res) THEN "same"
    ELSE "diverged"

(***************************************************************************)
(* The log of external effects.                                            *)
(***************************************************************************)
Phase(at) ==
    CASE at \in {"main", "load"}                            -> "Loading"
      [] at \in {"update", "install"}                       -> "InstallingPackages"
      [] at \in {"setup", "setup_run", "setup_finally"}     -> "RunningSetupScripts"
      [] at = "config"                                      -> "MaterializingConfig"
      [] at = "services"                                    -> "ActivatingServices"
      [] OTHER                                              -> "Done"

Event(op, cap, argv, val) ==
    [op |-> op, phase |-> Phase(pc), cap |-> cap, argv |-> argv, val |-> val]

\* the run ends: quit(1), or an exception that nothing catches
Halt(e) == exit' = "1" /\ exc' = e

Running == exit = "running"

(***************************************************************************)
(* Capabilities.                                                           *)
(***************************************************************************)
\* dict.get(key, default)
Get(d, key, default) == IF key \in DOMAIN d THEN d[key] ELSE default

\* capability_spec: the parsed descriptor with the name injected
capability_spec(e) ==
    [f \in DOMAIN e.doc \cup {"name"} |->
        IF f = "name" THEN e.name ELSE e.doc[f]]

\* capability_path: what is on disk under the capability's directory
capability_path(capability_name) ==
    CHOOSE e \in Range(listing) : e.name = capability_name

Cap == capabilities[i]

(***************************************************************************)
(* Init: the inputs of a run.                                              *)
(***************************************************************************)
Start ==
    /\ LOG_LEVEL \in LogLevels
    /\ uid \in {0, 1000}
    /\ cwd \in {<<>>, <<"root">>}
    /\ listing \in SeqsOver(Entries, MaxEntries)
    /\ fs \in {FSbare, FSused}
    /\ fs_init = fs
    /\ capabilities = <<>>
    /\ pc = "main"
    /\ i = 1
    /\ j = 1
    /\ k = 1
    /\ tmp = {}
    /\ made = 0
    /\ pending = "ok"
    /\ ops = <<>>
    /\ exit = "running"
    /\ exc = "none"
    /\ runs = 1
    /\ fs_done = fs
    /\ twin = "same"

Init == Start /\ twin_level = LOG_LEVEL

\* what no step of a run changes
inputs == <<LOG_LEVEL, uid, cwd, listing, fs_init, runs, fs_done, twin_level>>

(***************************************************************************)
(* main, lines 343-350: the privilege check, then the eager load.          *)
(***************************************************************************)
\* a mutation: the load starts without the test of os.getuid()
main_unchecked ==
    /\ Running
    /\ pc = "main"
    /\ pc' = "load"
    /\ UNCHANGED <<inputs, twin, capabilities, i, j, k, fs, tmp, made, pending,
                   ops, exit, exc>>

main ==
    /\ Running
    /\ pc = "main"
    /\ IF uid # 0
       THEN Halt("SystemExit") /\ UNCHANGED pc
       ELSE pc' = "load" /\ UNCHANGED <<exit, exc>>
    /\ UNCHANGED <<inputs, twin, capabilities, i, j, k, fs, tmp, made, pending, ops>>

\* a mutation: a descriptor that cannot be loaded is skipped
generate_capabilities_skipping ==
    /\ Running
    /\ pc = "load"
    /\ i <= Len(listing)
    /\ LET e == listing[i]
       IN  IF ~e.isdir \/ e.desc = "none"
           THEN UNCHANGED <<capabilities, ops>>
           ELSE /\ ops' = Append(ops, Event("open", e.name,
                                            <<e.name, "capability.yaml">>, 0))
                /\ capabilities' =
                       IF e.desc = "ok"
                       THEN Append(capabilities,
                                   [f \in DOMAIN e.doc \cup {"name"} |->
                                       IF f = "name" THEN e.name ELSE e.doc[f]])
                       ELSE capabilities
    /\ i' = i + 1
    /\ UNCHANGED <<inputs, twin, pc, j, k, fs, tmp, made, pending, exit, exc>>

\* a mutation: every entry is loaded, without the isdir and isfile tests
generate_capabilities_unfiltered ==
    /\ Running
    /\ pc = "load"
    /\ i <= Len(listing)
    /\ LET e == listing[i]
       IN  /\ ops' = Append(ops, Event("open", e.name,
                                       <<e.name, "capability.yaml">>, 0))
           /\ IF e.isdir /\ e.desc = "ok"
              THEN /\ capabilities' = Append(capabilities, capability_spec(e))
                   /\ i' = i + 1
                   /\ UNCHANGED <<exit, exc>>
              ELSE Halt("OSError") /\ UNCHANGED <<capabilities, i>>
    /\ UNCHANGED <<inputs, twin, pc, j, k, fs, tmp, made, pending>>

\* one iteration of generate_capability_names / generate_capabilities
generate_capabilities ==
    /\ Running
    /\ pc = "load"
    /\ i <= Len(listing)
    /\ LET e == listing[i]
       IN  IF ~e.isdir \/ e.desc = "none"
           THEN /\ i' = i + 1
                /\ UNCHANGED <<capabilities, ops, exit, exc>>
           ELSE /\ ops' = Append(ops, Event("open", e.name,
                                            <<e.name, "capability.yaml">>, 0))
                /\ CASE e.desc = "unreadable" ->
                            Halt("PermissionError")
                            /\ UNCHANGED <<capabilities, i>>
                     [] e.desc = "malformed" ->
                            Halt("YAMLError")
                            /\ UNCHANGED <<capabilities, i>>
                     [] e.desc = "null" ->
                            \* None does not support item assignment
                            Halt("TypeError")
                            /\ UNCHANGED <<capabilities, i>>
                     [] OTHER ->
                            /\ capabilities' =
                                   Append(capabilities, capability_spec(e))
                            /\ i' = i + 1
                            /\ UNCHANGED <<exit, exc>>
    /\ UNCHANGED <<inputs, twin, pc, j, k, fs, tmp, made, pending>>

(***************************************************************************)
(* main, lines 350-355: a phase starts when the loop before it is over.    *)
(***************************************************************************)
\* a mutation: config files are copied before the setup scripts run
phase_after_swapped(at) ==
    CASE at = "load"    -> "update"
      [] at = "install" -> "config"
      [] at = "config"  -> "setup"
      [] at = "setup"   -> "services"
      [] OTHER          -> "done"

\* the order of the calls in main
phase_after(at) ==
    CASE at = "load"    -> "update"
      [] at = "install" -> "setup"
      [] at = "setup"   -> "config"
      [] at = "config"  -> "services"
      [] OTHER          -> "done"

\* a mutation: the capabilities are a generator, spent by the first loop
LoopOver_exhausted ==
    IF pc = "load" THEN i > Len(listing)
    ELSE pc # "install" \/ i > Len(capabilities)

LoopOver ==
    IF pc = "load" THEN i > Len(listing) ELSE i > Len(capabilities)

next_phase ==
    /\ Running
    /\ pc \in {"load", "install", "setup", "config", "services"}
    /\ LoopOver
    /\ pc' = phase_after(pc)
    /\ exit' = IF pc = "services" THEN "0" ELSE exit
    /\ i' = 1
    /\ j' = 1
    /\ k' = 1
    /\ UNCHANGED <<inputs, twin, capabilities, fs, tmp, made, pending, ops, exc>>

(***************************************************************************)
(* run: a child process is started and waited for.                         *)
(***************************************************************************)
\* the log entry of the command and, when run() does not return, the halt
run(cap, command, res) ==
    /\ ops' = Append(ops, Event("run", cap, command, res.rc))
    /\ twin' = twin_after(res)
    /\ IF run_result(res) = "ok"
       THEN UNCHANGED <<exit, exc>>
       ELSE Halt(run_result(res))

(***************************************************************************)
(* install_capabilities_packages and install_capability_packages.          *)
(***************************************************************************)
install_capabilities_packages ==
    /\ Running
    /\ pc = "update"
    /\ \E res \in Outcomes :
          /\ run("", <<"apt-get", "update">>, res)
          /\ pc' = IF run_result(res) = "ok" THEN "install" ELSE pc
    /\ UNCHANGED <<inputs, capabilities, i, j, k, fs, tmp, made, pending>>

\* a mutation: one install call per package, of which this is the first
install_command_first(packages) ==
    <<"apt-get", "install", "--assume-yes", Head(packages)>>

install_command(packages) == <<"apt-get", "install", "--assume-yes">> \o packages

\* a mutation: the install command is issued without the length test
install_capability_packages_always ==
    /\ Running
    /\ pc = "install"
    /\ i <= Len(capabilities)
    /\ \E res \in Outcomes :
          /\ run(Cap.name,
                 <<"apt-get", "install", "--assume-yes">>
                     \o Get(Cap, "packages", <<>>), res)
          /\ i' = IF run_result(res) = "ok" THEN i + 1 ELSE i
    /\ UNCHANGED <<inputs, capabilities, pc, j, k, fs, tmp, made, pending>>

install_capability_packages ==
    /\ Running
    /\ pc = "install"
    /\ i <= Len(capabilities)
    /\ LET packages == Get(Cap, "packages", <<>>)
       IN  IF Len(packages) > 0
           THEN \E res \in Outcomes :
                   /\ run(Cap.name, install_command(packages), res)
                   /\ i' = IF run_result(res) = "ok" THEN i + 1 ELSE i
           ELSE /\ i' = i + 1
                /\ UNCHANGED <<ops, exit, exc, twin>>
    /\ UNCHANGED <<inputs, capabilities, pc, j, k, fs, tmp, made, pending>>

(***************************************************************************)
(* run_capability_setup_script.                                            *)
(***************************************************************************)
\* tempfile.mkstemp names a file that does not exist yet
mkstemp == <<"tmp", "tmp" \o ToString(made + 1)>>

TmpFile(path, content) == [path |-> path, content |-> content, mode |-> 448]

\* a mutation: the script template is rendered without the isfile test
run_capability_setup_script_always ==
    /\ Running
    /\ pc = "setup"
    /\ i <= Len(capabilities)
    /\ LET dir == capability_path(Cap.name)
           template_vars == Get(Cap, "vars", <<>>)
       IN  /\ tmp' = tmp \cup
                   {TmpFile(mkstemp, render(dir.setup_sh, template_vars))}
           /\ made' = made + 1
           /\ ops' = Append(ops, Event("mkstemp", Cap.name, mkstemp, 448))
           /\ pc' = "setup_run"
           /\ UNCHANGED i
    /\ UNCHANGED <<inputs, twin, capabilities, j, k, fs, pending, exit, exc>>

\* lines 219-238: no script, or the rendered script in a temporary file
run_capability_setup_script ==
    /\ Running
    /\ pc = "setup"
    /\ i <= Len(capabilities)
    /\ LET dir == capability_path(Cap.name)
           template_vars == Get(Cap, "vars", <<>>)
       IN  IF ~dir.setup
           THEN /\ i' = i + 1
                /\ UNCHANGED <<pc, tmp, made, ops>>
           ELSE /\ tmp' = tmp \cup
                       {TmpFile(mkstemp, render(dir.setup_sh, template_vars))}
                /\ made' = made + 1
                /\ ops' = Append(ops, Event("mkstemp", Cap.name, mkstemp, 448))
                /\ pc' = "setup_run"
                /\ UNCHANGED i
    /\ UNCHANGED <<inputs, twin, capabilities, j, k, fs, pending, exit, exc>>

\* the file this capability's script was written to
setup_script == <<"tmp", "tmp" \o ToString(made)>>

\* lines 240-241: run([setup_script]) inside the try block
run_setup_script ==
    /\ Running
    /\ pc = "setup_run"
    /\ \E res \in Outcomes :
          /\ ops' = Append(ops, Event("run", Cap.name, setup_script, res.rc))
          /\ pending' = run_result(res)
          /\ twin' = twin_after(res)
    /\ pc' = "setup_finally"
    /\ UNCHANGED <<inputs, capabilities, i, j, k, fs, tmp, made, exit, exc>>

\* the files that remain after os.unlink(path)
unlink(files, path) == {f \in files : f.path # path}

\* a mutation: no try/finally, the file is removed only after a success
setup_without_finally ==
    /\ Running
    /\ pc = "setup_finally"
    /\ IF pending = "ok"
       THEN /\ tmp' = {f \in tmp : f.path # setup_script}
            /\ ops' = Append(ops, Event("unlink", Cap.name, setup_script, 0))
            /\ pc' = "setup" /\ i' = i + 1 /\ UNCHANGED <<exit, exc>>
       ELSE Halt(pending) /\ UNCHANGED <<pc, i, tmp, ops>>
    /\ UNCHANGED <<inputs, twin, capabilities, j, k, fs, made, pending>>

\* lines 242-243: the finally block, then the return or the pending exit
setup_finally ==
    /\ Running
    /\ pc = "setup_finally"
    /\ tmp' = unlink(tmp, setup_script)
    /\ ops' = Append(ops, Event("unlink", Cap.name, setup_script, 0))
    /\ IF pending = "ok"
       THEN pc' = "setup" /\ i' = i + 1 /\ UNCHANGED <<exit, exc>>
       ELSE Halt(pending) /\ UNCHANGED <<pc, i>>
    /\ UNCHANGED <<inputs, twin, capabilities, j, k, fs, made, pending>>

(***************************************************************************)
(* copy_capability_config_files.                                           *)
(***************************************************************************)
\* a mutation: only the directories that hold something are created
RECURSIVE walk_skipping_empty(_, _)
walk_skipping_empty(config, root) ==
    IF root \notin DOMAIN config THEN <<>>
    ELSE LET d == config[root]
             full == SelectSeq(d.dirnames,
                               LAMBDA x : config[root \o <<x>>].filenames # <<>>
                                          \/ config[root \o <<x>>].dirnames # <<>>)
         IN  [n \in 1..Len(full) |->
                 [op |-> "makedirs", rel |-> root \o <<full[n]>>]]
             \o [n \in 1..Len(d.filenames) |->
                 [op |-> "write", rel |-> root \o <<d.filenames[n]>>]]
             \o Flatten([n \in 1..Len(d.dirnames) |->
                            walk_skipping_empty(config, root \o <<d.dirnames[n]>>)])

\* a mutation: os.walk(config_root, topdown=False)
RECURSIVE walk_bottom_up(_, _)
walk_bottom_up(config, root) ==
    IF root \notin DOMAIN config THEN <<>>
    ELSE LET d == config[root]
         IN  Flatten([n \in 1..Len(d.dirnames) |->
                         walk_bottom_up(config, root \o <<d.dirnames[n]>>)])
             \o [n \in 1..Len(d.dirnames) |->
                 [op |-> "makedirs", rel |-> root \o <<d.dirnames[n]>>]]
             \o [n \in 1..Len(d.filenames) |->
                 [op |-> "write", rel |-> root \o <<d.filenames[n]>>]]

\* os.walk(config_root): top-down; per directory its dirnames, then its
\* filenames, as the loop body of lines 261-279 visits them
RECURSIVE walk(_, _)
walk(config, root) ==
    IF root \notin DOMAIN config THEN <<>>
    ELSE LET d == config[root]
         IN  [n \in 1..Len(d.dirnames) |->
                 [op |-> "makedirs", rel |-> root \o <<d.dirnames[n]>>]]
             \o [n \in 1..Len(d.filenames) |->
                 [op |-> "write", rel |-> root \o <<d.filenames[n]>>]]
             \o Flatten([n \in 1..Len(d.dirnames) |->
                            walk(config, root \o <<d.dirnames[n]>>)])

WalkOps == walk(capability_path(Cap.name).config, <<>>)

Overrides == Get(Cap, "files", <<>>)

\* os.makedirs(path, exist_ok=True): "ok" or the exception it raises
makedirs_result(f, path) ==
    IF \E q \in Prefixes(path) : IsFile(f, q)
    THEN IF IsFile(f, path) THEN "FileExistsError" ELSE "NotADirectoryError"
    ELSE "ok"

makedirs(f, path) ==
    [q \in DOMAIN f \cup Prefixes(path) |->
        IF q \in DOMAIN f THEN f[q] ELSE DirNode]

\* open(path, "w").write(text): "ok" or the exception open raises
write_result(f, path) ==
    IF ~IsDir(f, Front(path))
    THEN IF Exists(f, Front(path)) THEN "NotADirectoryError"
         ELSE "FileNotFoundError"
    ELSE IF IsDir(f, path) THEN "IsADirectoryError" ELSE "ok"

\* a mutation: a file that exists is left as it is
write_keep_existing(f, path, text) ==
    IF path \in DOMAIN f THEN f ELSE Put(f, path, FileNode(text, 420))

\* a mutation: the file is opened for appending
write_append(f, path, text) ==
    Put(f, path, IF path \in DOMAIN f
                 THEN [f[path] EXCEPT !.content = f[path].content \o text]
                 ELSE FileNode(text, 420))

\* an existing file is truncated and keeps its mode and owner
write(f, path, text) ==
    Put(f, path, IF path \in DOMAIN f THEN [f[path] EXCEPT !.content = text]
                 ELSE FileNode(text, 420))

\* lines 261-279: one directory or one file of the walk
copy_capability_config_files ==
    /\ Running
    /\ pc = "config"
    /\ i <= Len(capabilities)
    /\ j <= Len(WalkOps)
    /\ LET w == WalkOps[j]
           template_vars == Get(Cap, "vars", <<>>)
           system_path == SystemPath(w.rel)
           result == IF w.op = "makedirs" THEN makedirs_result(fs, system_path)
                     ELSE write_result(fs, system_path)
       IN  /\ ops' = Append(ops, Event(w.op, Cap.name, system_path, 0))
           /\ IF result = "ok"
              THEN /\ fs' = IF w.op = "makedirs" THEN makedirs(fs, system_path)
                            ELSE write(fs, system_path,
                                       render(capability_path(Cap.name)
                                                  .templates[w.rel],
                                              template_vars))
                   /\ j' = j + 1
                   /\ UNCHANGED <<exit, exc>>
              ELSE Halt(result) /\ UNCHANGED <<fs, j>>
    /\ UNCHANGED <<inputs, twin, capabilities, pc, i, k, tmp, made, pending>>

\* the path os.chmod and os.chown are given for a key of `files`
override_path(key, template_vars) ==
    Resolve(render_parts(key.parts, template_vars), key.abs)

\* lines 283-285: "ok" or the exception os.chmod raises
chmod_result(f, value, path) ==
    IF "mode" \in DOMAIN value /\ ~Exists(f, path) THEN "FileNotFoundError"
    ELSE "ok"

\* lines 286-297: "ok" or the exception raised while the owner is set
chown_result(f, value, path) ==
    IF "owner" \notin DOMAIN value THEN "ok"
    ELSE IF ~({"user", "group"} \subseteq DOMAIN value) THEN "KeyError"
    ELSE IF "getpdnam" \notin PwdFunctions THEN "AttributeError"
    ELSE IF value["user"] \notin DOMAIN Passwd THEN "KeyError"
    ELSE IF "getgrnam" \notin GrpFunctions THEN "AttributeError"
    ELSE IF value["group"] \notin DOMAIN Group THEN "KeyError"
    ELSE IF ~Exists(f, path) THEN "FileNotFoundError"
    ELSE "ok"

chmod(f, path, mode) ==
    IF path \in DOMAIN f THEN [f EXCEPT ![path].mode = mode] ELSE f

chown(f, path, u, g) ==
    IF path \in DOMAIN f THEN [f EXCEPT ![path].uid = u, ![path].gid = g]
    ELSE f

\* lines 281-297: one entry of the `files` mapping
apply_override ==
    /\ Running
    /\ pc = "config"
    /\ i <= Len(capabilities)
    /\ j > Len(WalkOps)
    /\ j <= Len(WalkOps) + Len(Overrides)
    /\ LET o == Overrides[j - Len(WalkOps)]
           value == o.value
           path == override_path(o.key, Get(Cap, "vars", <<>>))
           has_mode == "mode" \in DOMAIN value
           r1 == chmod_result(fs, value, path)
           f1 == IF has_mode /\ r1 = "ok" THEN chmod(fs, path, value["mode"])
                 ELSE fs
           r2 == IF r1 = "ok" THEN chown_result(f1, value, path) ELSE r1
           has_owner == "owner" \in DOMAIN value /\ r2 = "ok"
           f2 == IF has_owner
                 THEN chown(f1, path, Passwd[value["user"]],
                            Group[value["group"]])
                 ELSE f1
           e1 == IF has_mode
                 THEN <<Event("chmod", Cap.name, path, value["mode"])>>
                 ELSE <<>>
           e2 == IF has_owner
                 THEN <<Event("chown", Cap.name, path, Passwd[value["user"]])>>
                 ELSE <<>>
       IN  /\ fs' = f2
           /\ ops' = ops \o e1 \o e2
           /\ IF r2 = "ok"
              THEN j' = j + 1 /\ UNCHANGED <<exit, exc>>
              ELSE Halt(r2) /\ UNCHANGED j
    /\ UNCHANGED <<inputs, twin, capabilities, pc, i, k, tmp, made, pending>>

\* copy_capabilities_config_files, lines 303-304: the next capability
copy_capabilities_config_files ==
    /\ Running
    /\ pc = "config"
    /\ i <= Len(capabilities)
    /\ j > Len(WalkOps) + Len(Overrides)
    /\ i' = i + 1
    /\ j' = 1
    /\ UNCHANGED <<inputs, twin, capabilities, pc, k, fs, tmp, made, pending, ops,
                   exit, exc>>

(***************************************************************************)
(* activate_capability_services.                                           *)
(***************************************************************************)
\* a mutation: the service is restarted before it is enabled
Verbs_swapped == <<"restart", "enable", "is-active">>

Verbs == <<"enable", "restart", "is-active">>

systemctl(verb, service) == <<"systemctl", verb, service>>

Services == Get(Cap, "services", <<>>)

\* lines 312-320: one systemctl call for one service
activate_capability_services ==
    /\ Running
    /\ pc = "services"
    /\ i <= Len(capabilities)
    /\ j <= Len(Services)
    /\ \E res \in Outcomes :
          /\ run(Cap.name, systemctl(Verbs[k], Services[j]), res)
          /\ IF run_result(res) # "ok" THEN UNCHANGED <<j, k>>
             ELSE IF k < Len(Verbs) THEN k' = k + 1 /\ UNCHANGED j
             ELSE k' = 1 /\ j' = j + 1
    /\ UNCHANGED <<inputs, capabilities, pc, i, fs, tmp, made, pending>>

\* activate_capabilities_services, lines 328-329: the next capability
activate_capabilities_services ==
    /\ Running
    /\ pc = "services"
    /\ i <= Len(capabilities)
    /\ j > Len(Services)
    /\ i' = i + 1
    /\ j' = 1
    /\ UNCHANGED <<inputs, twin, capabilities, pc, k, fs, tmp, made, pending, ops,
                   exit, exc>>

Next ==
    \/ main
    \/ generate_capabilities
    \/ next_phase
    \/ install_capabilities_packages
    \/ install_capability_packages
    \/ run_capability_setup_script
    \/ run_setup_script
    \/ setup_finally
    \/ copy_capability_config_files
    \/ apply_override
    \/ copy_capabilities_config_files
    \/ activate_capability_services
    \/ activate_capabilities_services

Spec == Init /\ [][Next]_vars

(***************************************************************************)
(* The tool is started again on the machine the run before it left.        *)
(***************************************************************************)
\* python setup.py once more, after a run that reached the end of main
rerun ==
    /\ pc = "done"
    /\ exit = "0"
    /\ runs < MaxRuns
    /\ runs' = runs + 1
    /\ fs_done' = fs
    /\ fs_init' = fs
    /\ pc' = "main"
    /\ capabilities' = <<>>
    /\ i' = 1 /\ j' = 1 /\ k' = 1
    /\ made' = 0
    /\ pending' = "ok"
    /\ ops' = <<>>
    /\ exit' = "running"
    /\ exc' = "none"
    /\ UNCHANGED <<LOG_LEVEL, uid, cwd, listing, fs, tmp, twin_level, twin>>

\* root starts the tool, at the default log level
InitRerun == Init /\ uid = 0 /\ LOG_LEVEL = "error"

NextRerun == Next \/ rerun

SpecRerun == InitRerun /\ [][NextRerun]_vars

(***************************************************************************)
(* Two runs of the tool that differ in the log level only: the same user,  *)
(* directory, filesystem and child processes.                              *)
(***************************************************************************)
InitTwin == Start /\ twin_level \in LogLevels

SpecTwin == InitTwin /\ [][Next]_vars

(***************************************************************************)
(* Reading the log.                                                        *)
(***************************************************************************)
IsApt(e) == e.op = "run" /\ e.argv[1] = "apt-get"

IsUpdate(e) == IsApt(e) /\ e.argv[2] = "update"

IsInstall(e) == IsApt(e) /\ e.argv[2] = "install"

IsScript(e) == e.op = "run" /\ e.argv[1] = "tmp"

IsSystemctl(e) == e.op = "run" /\ e.argv[1] = "systemctl"

IsConfigOp(e) == e.op \in {"makedirs", "write", "chmod", "chown"}

\* the phase an effect belongs to by what it is
Rank(e) ==
    CASE e.op = "open"                          -> 0
      [] IsApt(e)                               -> 1
      [] e.op \in {"mkstemp", "unlink"}         -> 2
      [] IsScript(e)                            -> 2
      [] IsConfigOp(e)                          -> 3
      [] OTHER                                  -> 4

Count(Test(_)) == Cardinality({n \in DOMAIN ops : Test(ops[n])})

HasSetup(c) == (CHOOSE e \in Range(listing) : e.name = c.name).setup

TreeOf(c) == (CHOOSE e \in Range(listing) : e.name = c.name).config

HasPackages(c) == "packages" \in DOMAIN c /\ c["packages"] # <<>>

Logged(op, cap, argv) ==
    \E n \in DOMAIN ops :
        ops[n].op = op /\ ops[n].cap = cap /\ ops[n].argv = argv

\* C1: the effects of a run come in the order packages, setup scripts,
\* config materialization, service activation, and an effect of a later
\* phase appears only when the phase before it is complete for every loaded
\* capability: every capability with packages has had its install command
\* before any setup script is created or run, every capability with a
\* setup.sh has had its script run and removed before any config directory
\* or file is written, and every directory and file of every config.d tree
\* is written and every mode override applied before any systemctl
\* command.  Since the order never goes back, no phase is entered twice.
C1_PhasesInOrder ==
    /\ \A a, b \in DOMAIN ops : a < b => Rank(ops[a]) <= Rank(ops[b])
    /\ (\E n \in DOMAIN ops : Rank(ops[n]) >= 2) =>
           \A c \in Range(capabilities) :
               HasPackages(c) =>
                   \E n \in DOMAIN ops :
                       IsInstall(ops[n]) /\ ops[n].cap = c.name
                       /\ ops[n].val = 0
    /\ (\E n \in DOMAIN ops : Rank(ops[n]) >= 3) =>
           \A c \in Range(capabilities) :
               HasSetup(c) =>
                   \E a, b \in DOMAIN ops :
                       /\ a < b
                       /\ IsScript(ops[a]) /\ ops[a].cap = c.name
                       /\ ops[a].val = 0
                       /\ ops[b].op = "unlink" /\ ops[b].cap = c.name
    /\ (\E n \in DOMAIN ops : Rank(ops[n]) >= 4) =>
           \A c \in Range(capabilities) :
               /\ \A w \in Range(walk(TreeOf(c), <<>>)) :
                      Logged(w.op, c.name, w.rel)
               /\ \A o \in Range(Get(c, "files", <<>>)) :
                      "mode" \in DOMAIN o.value =>
                          \E n \in DOMAIN ops :
                              /\ ops[n].op = "chmod" /\ ops[n].cap = c.name
                              /\ ops[n].val = o.value["mode"]

\* a finished run of two capabilities that had effects in all four phases
C1_Witness ==
    /\ pc = "done"
    /\ Len(capabilities) = 2
    /\ \A r \in 1..4 : \E n \in DOMAIN ops : Rank(ops[n]) = r
    /\ \A c \in Range(capabilities) : HasSetup(c) /\ TreeOf(c) # NoTree

\* the position in the log of the first command that exited non-zero
FirstFailure ==
    CHOOSE n \in DOMAIN ops :
        /\ ops[n].op = "run" /\ ops[n].val # 0
        /\ \A m \in 1..(n - 1) : ~(ops[m].op = "run" /\ ops[m].val # 0)

SomeFailure == \E n \in DOMAIN ops : ops[n].op = "run" /\ ops[n].val # 0

\* C2: once an external command has exited non-zero, the run is over with
\* exit status 1 in the phase of that command (a failed setup script first
\* has its temporary file removed): the log holds nothing after the failing
\* command except the removal of the temporary script, so no further
\* command, directory, file, chmod or chown follows, the run never reaches
\* Done, and the loop index still names the capability of the failing
\* command.
C2_FailureHalts ==
    SomeFailure =>
        LET n == FirstFailure
        IN  /\ \A m \in (n + 1)..Len(ops) : ops[m].op = "unlink"
            /\ Phase(pc) = ops[n].phase
            /\ exit # "0"
            /\ \/ exit = "1"
               \/ pc = "setup_finally" /\ pending # "ok" /\ n = Len(ops)
            /\ ops[n].cap # "" => capabilities[i].name = ops[n].cap

\* a service command failed for the first of two capabilities: the second
\* capability's services are never reached
C2_Witness ==
    /\ SomeFailure
    /\ exit = "1"
    /\ pc = "services"
    /\ i = 1
    /\ Len(capabilities) = 2
    /\ Get(capabilities[2], "services", <<>>) # <<>>
    /\ ops[Len(ops)].argv[2] = "is-active"

\* C3: apt-get update is never issued twice; once the run is past the
\* update step (whatever the number of capabilities, zero included) it has
\* been issued exactly once; every install command comes after it; and an
\* install command is only ever issued for a capability whose packages
\* list is present and non-empty.
C3_OneUpdate ==
    /\ Count(IsUpdate) <= 1
    /\ (pc \notin {"main", "load"} /\ (pc # "update" \/ exit = "1")) =>
           Count(IsUpdate) = 1
    /\ \A n \in DOMAIN ops :
           IsInstall(ops[n]) =>
               /\ \E m \in 1..(n - 1) : IsUpdate(ops[m])
               /\ \E c \in Range(capabilities) :
                      /\ c.name = ops[n].cap
                      /\ "packages" \in DOMAIN c
                      /\ Len(c["packages"]) > 0

\* the package phase is over for one capability without a packages key and
\* one whose packages list is empty: update ran, no install did
C3_Witness ==
    /\ pc = "setup"
    /\ Len(capabilities) = 2
    /\ \E c \in Range(capabilities) : "packages" \notin DOMAIN c
    /\ \E c \in Range(capabilities) :
           "packages" \in DOMAIN c /\ c["packages"] = <<>>
    /\ Count(IsUpdate) = 1
    /\ Count(IsInstall) = 0

\* install events, and the capabilities that have packages, in order
Installs == SelectSeq(ops, IsInstall)

WithPackages == SelectSeq(capabilities, HasPackages)

\* C4: when the package phase has completed, the install commands are, in
\* order, one per capability with a non-empty packages list, and the
\* command of each is apt-get install --assume-yes followed by exactly that
\* capability's packages in descriptor order.
C4_InstallPerCapability ==
    pc \in {"setup", "setup_run", "setup_finally", "config", "services",
            "done"} =>
        /\ Len(Installs) = Len(WithPackages)
        /\ \A n \in DOMAIN Installs :
               /\ Installs[n].cap = WithPackages[n].name
               /\ Installs[n].argv =
                      <<"apt-get", "install", "--assume-yes">>
                          \o WithPackages[n]["packages"]

\* a finished run with two installing capabilities, one with two packages
C4_Witness ==
    /\ pc = "done"
    /\ Len(WithPackages) = 2
    /\ Len(Installs) = 2
    /\ \E n \in DOMAIN Installs : Len(Installs[n].argv) = 5

\* C5: at most one temporary setup script exists at any moment; none
\* exists when the run has ended, whether the script exited zero or not;
\* and none exists when the loop is at a capability's start or in any other
\* phase, so each is deleted before the next capability is handled.
C5_TempFileRemoved ==
    /\ Cardinality(tmp) <= 1
    /\ exit # "running" => tmp = {}
    /\ pc \notin {"setup_run", "setup_finally"} => tmp = {}
    /\ Count(LAMBDA e : e.op = "mkstemp") - Count(LAMBDA e : e.op = "unlink")
           = Cardinality(tmp)

\* a setup script exited non-zero, the run ended, the file is gone
C5_Witness ==
    /\ exit = "1"
    /\ pc = "setup_finally"
    /\ ops[Len(ops)].op = "unlink"
    /\ ops[Len(ops) - 1].op = "run" /\ ops[Len(ops) - 1].val # 0
    /\ tmp = {}

(***************************************************************************)
(* Reading the state of copy_capability_config_files.                      *)
(***************************************************************************)
\* the run is inside capability i's materialization, at or past the
\* overrides
AtOverrides == pc = "config" /\ i <= Len(capabilities) /\ j > Len(WalkOps)

\* the number of the override that is next (or at which the run failed)
OverrideIndex == j - Len(WalkOps)

\* the materialization of capability i has completed
Materialized == AtOverrides /\ j > Len(WalkOps) + Len(Overrides)

\* the key of an override, rendered: the components of the path it names
KeyParts(o) == render_parts(o.key.parts, Get(Cap, "vars", <<>>))

\* the relative paths of the files of capability i's config.d tree
TreeFiles == DOMAIN capability_path(Cap.name).templates

\* C6 (as claimed; the code violates it): when the materialization of a
\* capability has completed, every override with a mode M whose key K is
\* the relative path of a file of the capability's config.d tree has left
\* the file /K with permission bits M, whatever the working directory.
C6_ModeOnCopiedFile ==
    Materialized =>
        \A n \in DOMAIN Overrides :
            LET o == Overrides[n]
            IN  (/\ ~o.key.abs
                 /\ "mode" \in DOMAIN o.value
                 /\ KeyParts(o) \in TreeFiles) =>
                    /\ IsFile(fs, KeyParts(o))
                    /\ fs[KeyParts(o)].mode = o.value["mode"]

\* what does hold: the mode is applied to the path the key names from the
\* working directory
C6_ModeOnResolvedPath ==
    Materialized =>
        \A n \in DOMAIN Overrides :
            LET o == Overrides[n]
            IN  "mode" \in DOMAIN o.value =>
                    fs[Resolve(KeyParts(o), o.key.abs)].mode = o.value["mode"]

\* the path an override names, as the kernel resolves it
Target(o) == Resolve(KeyParts(o), o.key.abs)

\* an override that names an owner whose user and group both resolve
OwnerResolves(o) ==
    /\ "owner" \in DOMAIN o.value
    /\ o.value["owner"].user \in DOMAIN Passwd
    /\ o.value["owner"].group \in DOMAIN Group

\* C7 (as claimed; the code violates it): an override that names an owner
\* whose user and group resolve, on a path that exists, does not end the
\* run, and once it has been applied the path is owned by the uid and gid
\* the two names resolve to.
C7_OwnerApplied ==
    AtOverrides =>
        \A n \in DOMAIN Overrides :
            LET o == Overrides[n]
            IN  (OwnerResolves(o) /\ Exists(fs, Target(o))) =>
                    /\ n = OverrideIndex => exit = "running"
                    /\ n < OverrideIndex =>
                           /\ fs[Target(o)].uid = Passwd[o.value["owner"].user]
                           /\ fs[Target(o)].gid = Group[o.value["owner"].group]

\* the walk ops and the chmod/chown ops of capability c in the log
LastWalkOp(c) ==
    LET S == {n \in DOMAIN ops :
                 ops[n].cap = c /\ ops[n].op \in {"makedirs", "write"}}
    IN  IF S = {} THEN 0 ELSE CHOOSE n \in S : \A m \in S : m <= n

FirstOverrideOp(c) ==
    LET S == {n \in DOMAIN ops :
                 ops[n].cap = c /\ ops[n].op \in {"chmod", "chown"}}
    IN  IF S = {} THEN Len(ops) + 1 ELSE CHOOSE n \in S : \A m \in S : n <= m

\* the overrides of a capability come after its whole tree: when the first
\* override is reached every directory and file of the tree is written,
\* and no directory or file of the capability follows a chmod or chown
C8_OverridesAfterTree ==
    /\ \A c \in Range(capabilities) :
           LastWalkOp(c.name) < FirstOverrideOp(c.name)
    /\ AtOverrides =>
           \A w \in Range(WalkOps) : Logged(w.op, Cap.name, w.rel)

\* an override on a path the tree copy does not produce
OutsideTree(o) == o.key.abs \/ KeyParts(o) \notin TreeFiles

\* C8 (as claimed; the code violates it): the overrides of a capability
\* are applied after its whole config.d tree is written, and an override
\* on a path the tree copy does not produce succeeds when the path exists
\* and ends the run when it does not.
C8_OverrideAfterTreeAndExistence ==
    /\ C8_OverridesAfterTree
    /\ AtOverrides =>
           \A n \in DOMAIN Overrides :
               LET o == Overrides[n]
               IN  (OutsideTree(o) /\ n = OverrideIndex) =>
                       (Exists(fs, Target(o)) => exit = "running")
    /\ AtOverrides =>
           \A n \in DOMAIN Overrides :
               LET o == Overrides[n]
               IN  (OutsideTree(o) /\ n < OverrideIndex) =>
                       Exists(fs, Target(o))

\* what does hold of the existence rule: a mode-only override
C8_ModeOverrideExistence ==
    AtOverrides =>
        \A n \in DOMAIN Overrides :
            LET o == Overrides[n]
            IN  (DOMAIN o.value = {"mode"}) =>
                    /\ (n = OverrideIndex /\ Exists(fs, Target(o))) =>
                           exit = "running"
                    /\ n < OverrideIndex => Exists(fs, Target(o))

\* the systemctl commands of the log, in order
Systemctls == SelectSeq(ops, IsSystemctl)

\* every service of every capability, in capability and descriptor order
RECURSIVE AllServices(_)
AllServices(caps) ==
    IF caps = <<>> THEN <<>>
    ELSE (IF "services" \in DOMAIN Head(caps) THEN Head(caps)["services"]
          ELSE <<>>) \o AllServices(Tail(caps))

\* C9: the systemctl commands come in groups of three per service, enable
\* then restart then is-active, each a command of its own naming that
\* service; every command but the last of the log returned zero, so
\* restart follows only a successful enable and is-active only a
\* successful restart; the n-th group is for the n-th service in
\* capability and descriptor order, so a service's three calls are over
\* before the next service's enable.
C9_EnableRestartIsActive ==
    \A n \in DOMAIN Systemctls :
        LET e == Systemctls[n]
            g == ((n - 1) \div 3) + 1
            v == ((n - 1) % 3) + 1
        IN  /\ Len(e.argv) = 3
            /\ e.argv[2] = <<"enable", "restart", "is-active">>[v]
            /\ g <= Len(AllServices(capabilities))
            /\ e.argv[3] = AllServices(capabilities)[g]
            /\ n < Len(Systemctls) => e.val = 0

\* a finished run that activated at least two services
C9_Witness ==
    /\ pc = "done"
    /\ Len(Systemctls) >= 6
    /\ Len(Systemctls) = 3 * Len(AllServices(capabilities))

\* the entries of the listing that are discovered: directories that hold
\* a descriptor file
Discovered(e) == e.isdir /\ e.desc # "none"

BadDescriptor(e) == Discovered(e) /\ e.desc \in {"malformed", "unreadable"}

\* C10: when the descriptor of some discovered capability cannot be read
\* or parsed, the run never leaves the load: no command is issued, no
\* temporary file is made, the filesystem is as it was at the start, the
\* run never exits with status 0, the load never goes past the first such
\* descriptor, and the capabilities loaded before it are not processed.
C10_LoadAllOrNothing ==
    (\E n \in DOMAIN listing : BadDescriptor(listing[n])) =>
        LET b == CHOOSE n \in DOMAIN listing :
                     /\ BadDescriptor(listing[n])
                     /\ \A m \in 1..(n - 1) : ~BadDescriptor(listing[m])
        IN  /\ pc \in {"main", "load"}
            /\ i <= b
            /\ \A n \in DOMAIN ops : ops[n].op = "open"
            /\ fs = fs_init
            /\ tmp = {}
            /\ exit # "0"
            /\ (pc = "load" /\ Len(ops) > 0 /\ ops[Len(ops)].cap = listing[b].name)
                   => exit = "1"

\* a valid descriptor was loaded, then a malformed one ended the run
C10_Witness ==
    /\ exit = "1"
    /\ pc = "load"
    /\ exc = "YAMLError"
    /\ Len(capabilities) = 1
    /\ HasPackages(capabilities[1])
    /\ ops[Len(ops)].op = "open"

\* the effects a capability has in the log
EffectsOf(c, Test(_)) == {n \in DOMAIN ops : ops[n].cap = c /\ Test(ops[n])}

\* an absent key behaves as an empty one: no install command without
\* packages, no chmod or chown without files, no systemctl without services
AbsentKeysAreEmpty ==
    \A c \in Range(capabilities) :
        /\ "packages" \notin DOMAIN c => EffectsOf(c.name, IsInstall) = {}
        /\ "files" \notin DOMAIN c =>
               EffectsOf(c.name, LAMBDA e : e.op \in {"chmod", "chown"}) = {}
        /\ "services" \notin DOMAIN c => EffectsOf(c.name, IsSystemctl) = {}

\* C11 (as claimed; the code violates it): a descriptor that declares any
\* subset of vars, packages, services and files, the empty subset
\* included, is loaded (the run does not end at it), and every key it
\* leaves out is treated as empty.
C11_KeysOptional ==
    /\ (pc = "load" /\ exit = "1") => listing[i].desc \notin {"ok", "null"}
    /\ AbsentKeysAreEmpty

\* what does hold: the same when the document is a mapping, {} included
C11_MappingKeysOptional ==
    /\ (pc = "load" /\ exit = "1") => listing[i].desc # "ok"
    /\ AbsentKeysAreEmpty
    /\ \A n \in DOMAIN listing :
           (pc # "main" /\ (pc # "load" \/ i > n) /\ Discovered(listing[n])
            /\ listing[n].desc = "ok") =>
               \E c \in Range(capabilities) : c.name = listing[n].name

\* C12: when the materialization of a capability has completed, every
\* directory of its config.d tree, empty ones included, is a directory at
\* the same path under /, and every file of the tree is a file at the same
\* path under / whose content is the file's template rendered against that
\* capability's vars, whatever was there before ({{port}} with port 8080
\* gives 8080; an undefined tag gives nothing).
C12_TreeMirrored ==
    Materialized =>
        LET dir == capability_path(Cap.name)
        IN  /\ \A p \in DOMAIN dir.config :
                   \A d \in Range(dir.config[p].dirnames) :
                       IsDir(fs, p \o <<d>>)
            /\ \A p \in DOMAIN dir.templates :
                   /\ IsFile(fs, p)
                   /\ fs[p].content =
                          render(dir.templates[p], Get(Cap, "vars", <<>>))
            /\ Cap.name = "web" =>
                   fs[<<"etc", "app.conf">>].content = "port=8080"
            /\ Cap.name = "dns" =>
                   /\ fs[<<"etc", "app.conf">>].content = "zone=&lt;"
                   /\ fs[<<"motd">>].content = "hello"

\* a tree with an empty directory was copied over a file that existed
C12_Witness ==
    /\ Materialized
    /\ Cap.name = "dns"
    /\ IsFile(fs_init, <<"etc", "app.conf">>)
    /\ fs_init[<<"etc", "app.conf">>].content = "old"
    /\ fs[<<"etc", "app.conf">>].content # "old"
    /\ IsDir(fs, <<"srv">>)


(***************************************************************************)
(* C13.  Running the tool again, and running it on another machine.        *)
(***************************************************************************)
TemplatesOf(c) == DOMAIN capability_path(c.name).templates

\* the files the config phase of this run writes
MaterializedFiles == UNION {TemplatesOf(capabilities[n]) : n \in DOMAIN capabilities}

\* the text the last capability that ships the file renders for it
LastRendering(p) ==
    LET n == CHOOSE n \in DOMAIN capabilities :
                 /\ p \in TemplatesOf(capabilities[n])
                 /\ \A m \in DOMAIN capabilities :
                        m > n => p \notin TemplatesOf(capabilities[m])
    IN  render(capability_path(capabilities[n].name).templates[p],
               Get(capabilities[n], "vars", <<>>))

\* an override of this run changed the mode or the owner of the file
Overridden(p) ==
    \E n \in DOMAIN ops : ops[n].op \in {"chmod", "chown"} /\ ops[n].argv = p

\* C13 as stated: when a run is over, every materialized file is as the run
\* before left it, and its content, mode and owner are what a run on a
\* freshly installed machine produces, whatever the machine held before
C13_IdempotentAndStateIndependent ==
    pc = "done" =>
        \A p \in MaterializedFiles :
            /\ runs > 1 => fs[p] = fs_done[p]
            /\ fs[p].content = LastRendering(p)
            /\ ~Overridden(p) =>
                   fs[p].mode = 420 /\ fs[p].uid = 0 /\ fs[p].gid = 0

\* C13, amended: when a run is over, every materialized file is as the run
\* before left it and its content is the rendering of its template whatever
\* the machine held before; a file no override changed keeps the mode and
\* owner it had before the run, and gets mode 0644 and owner root when the
\* run created it
C13_IdempotentContentIndependent ==
    pc = "done" =>
        \A p \in MaterializedFiles :
            /\ runs > 1 => fs[p] = fs_done[p]
            /\ fs[p].content = LastRendering(p)
            /\ ~Overridden(p) =>
                   IF IsFile(fs_init, p)
                   THEN /\ fs[p].mode = fs_init[p].mode
                        /\ fs[p].uid = fs_init[p].uid
                        /\ fs[p].gid = fs_init[p].gid
                   ELSE fs[p].mode = 420 /\ fs[p].uid = 0 /\ fs[p].gid = 0

\* a second run is over; it rewrote a file that an earlier configuration of
\* the machine had left with mode 0640, and no override touched the file
C13_Witness ==
    /\ pc = "done"
    /\ runs = 2
    /\ \E p \in MaterializedFiles :
          /\ ~Overridden(p)
          /\ fs[p].mode = 416
          /\ fs_done[p].content = LastRendering(p)
          /\ \E n \in DOMAIN ops : ops[n].op = "write" /\ ops[n].argv = p


(***************************************************************************)
(* C14.  The log level and the control flow.                               *)
(***************************************************************************)
\* C14: a run at log level twin_level, given the same capabilities, the same
\* filesystem and the same exit code and output of every child process,
\* returns from every run() the way this run does, so it performs the same
\* commands and filesystem operations and ends with the same exit status
C14_LogLevelIrrelevant == twin = "same"

\* the runs part only where a child process that exited with 0 wrote a brace
C14_DivergesOnBracesOnly ==
    twin = "diverged" =>
        /\ ops # <<>>
        /\ \E n \in DOMAIN ops : ops[n].op = "run" /\ ops[n].val = 0
        /\ (LOG_LEVEL \in {"debug", "trace"}) # (twin_level \in {"debug", "trace"})


(***************************************************************************)
(* C15.  One list of capabilities, iterated once in each phase.            *)
(***************************************************************************)
Names(s) == [n \in DOMAIN s |-> s[n].name]

CapsOf(s) == [n \in DOMAIN s |-> s[n].cap]

\* a sequence without its consecutive repetitions
RECURSIVE Collapse(_)
Collapse(s) ==
    IF Len(s) <= 1 THEN s
    ELSE IF s[1] = s[2] THEN Collapse(Tail(s))
    ELSE <<s[1]>> \o Collapse(Tail(s))

\* the capability has something to do in the phase of that rank
HasWork(c, r) ==
    CASE r = 1 -> HasPackages(c)
      [] r = 2 -> HasSetup(c)
      [] r = 3 -> \/ walk(TreeOf(c), <<>>) # <<>>
                  \/ \E n \in DOMAIN Get(c, "files", <<>>) :
                         "mode" \in DOMAIN c["files"][n].value
      [] OTHER -> Get(c, "services", <<>>) # <<>>

\* the capabilities in the order their effects of that phase are logged
Served(r) ==
    Collapse(CapsOf(SelectSeq(ops, LAMBDA e : IF r = 1 THEN IsInstall(e)
                                               ELSE Rank(e) = r)))

\* C15: when a run has ended in Done, the capability list is the load of
\* the discovered entries in listing order, and in each of the four phases
\* the capabilities whose effects are logged are, in list order and each
\* in one block, exactly the capabilities of that list that have something
\* to do in the phase: each is processed once, none is left out
C15_EachOncePerPhase ==
    pc = "done" =>
        /\ Names(capabilities) = Names(SelectSeq(listing, Discovered))
        /\ \A r \in 1..4 :
               Served(r) = Names(SelectSeq(capabilities,
                                           LAMBDA c : HasWork(c, r)))

\* a finished run of two capabilities that both act in the setup, config
\* and service phases
C15_Witness ==
    /\ pc = "done"
    /\ Len(capabilities) = 2
    /\ \A r \in 2..4 : Len(Served(r)) = 2
    /\ Len(Served(1)) = 1


(***************************************************************************)
(* C16.  A capability that declares nothing for phases two to four.        *)
(***************************************************************************)
\* no setup.sh, no config.d tree, no files overrides and no services
Inert(c) ==
    /\ ~HasSetup(c)
    /\ DOMAIN TreeOf(c) = {}
    /\ Get(c, "files", <<>>) = <<>>
    /\ Get(c, "services", <<>>) = <<>>

\* C16: for a capability without setup.sh, config.d, files and services,
\* nothing is logged in the setup, config and service phases (no temporary
\* file, no child process, no directory or file operation, no systemctl),
\* and a run never ends at such a capability in one of these phases
C16_InertCapabilitySkipped ==
    /\ \A n \in DOMAIN ops :
           Rank(ops[n]) >= 2 =>
               \A c \in Range(capabilities) :
                   Inert(c) => ops[n].cap # c.name
    /\ (exit = "1" /\ pc \in {"setup", "setup_run", "setup_finally",
                              "config", "services"}) =>
           ~Inert(Cap)

\* a finished run in which a capability that only declares packages sits
\* before one that has a script, a tree and services
C16_Witness ==
    /\ pc = "done"
    /\ Len(capabilities) = 2
    /\ Inert(capabilities[1])
    /\ HasPackages(capabilities[1])
    /\ \A r \in 2..4 : Served(r) = <<capabilities[2].name>>


(***************************************************************************)
(* C17.  Which entries of the discovery root are capabilities.             *)
(***************************************************************************)
\* the entries of the listing that generate_capability_names has passed
Seen == IF pc = "main" THEN <<>>
        ELSE IF pc = "load" THEN SubSeq(listing, 1, i - 1)
        ELSE listing

\* C17: the names loaded so far are the base names of the entries passed so
\* far that are directories holding a descriptor file, in listing order;
\* the loop never ends the run at an entry that is not such a directory;
\* and an entry that is not one has no log entry in any phase
C17_DiscoveredAreDirsWithDescriptor ==
    /\ Names(capabilities) = Names(SelectSeq(Seen, Discovered))
    /\ (pc = "load" /\ exit = "1") => Discovered(listing[i])
    /\ \A e \in Range(listing) :
           ~Discovered(e) => \A n \in DOMAIN ops : ops[n].cap # e.name

\* a finished run whose listing holds a plain file or a directory without a
\* descriptor before a capability that acted
C17_Witness ==
    /\ pc = "done"
    /\ Len(listing) = 2
    /\ ~Discovered(listing[1])
    /\ Len(capabilities) = 1
    /\ \E n \in DOMAIN ops : ops[n].cap = listing[2].name /\ Rank(ops[n]) >= 2


(***************************************************************************)
(* C18.  The privilege check.                                              *)
(***************************************************************************)
\* C18: when the tool is not started by root, at every log level, nothing
\* is ever read, run or written (no descriptor opened, no capability
\* loaded, no command, no temporary file, the filesystem as it was), the
\* only step the run can take is the check in main, and the run ends with
\* exit status 1 through quit(1)
C18_RootRequired ==
    uid # 0 =>
        /\ ops = <<>>
        /\ capabilities = <<>>
        /\ tmp = {}
        /\ fs = fs_init
        /\ pc = "main"
        /\ IF Running THEN ENABLED main
           ELSE exit = "1" /\ exc = "SystemExit"

\* a run by an ordinary user, at the most verbose level, in a directory
\* that holds a capability with packages, has ended
C18_Witness ==
    /\ uid # 0
    /\ exit = "1"
    /\ LOG_LEVEL = "trace"
    /\ \E e \in Range(listing) : Discovered(e) /\ e.desc = "ok"
                                 /\ "packages" \in DOMAIN e.doc


(***************************************************************************)
(* C19.  Directories come before the files inside them.                    *)
(***************************************************************************)
\* the walk of the current capability is about to write a file
AtWrite ==
    /\ pc = "config"
    /\ i <= Len(capabilities)
    /\ j <= Len(WalkOps)
    /\ WalkOps[j].op = "write"

\* C19: whenever the walk is about to write the file /d/f, /d is a
\* directory; unless d is the root of the tree, the makedirs of /d is
\* already logged for this capability; and when the run has ended at this
\* write, it is not for a missing parent or a parent that is no directory
C19_ParentExistsAtWrite ==
    AtWrite =>
        LET parent == Front(SystemPath(WalkOps[j].rel))
        IN  /\ IsDir(fs, parent)
            /\ parent # <<>> => Logged("makedirs", Cap.name, parent)
            /\ exit = "1" =>
                   exc \notin {"FileNotFoundError", "NotADirectoryError"}

\* the walk is about to write a file into a directory that the machine did
\* not have when the run started
C19_Witness ==
    /\ AtWrite
    /\ Running
    /\ Front(SystemPath(WalkOps[j].rel)) \notin DOMAIN fs_init
    /\ Front(SystemPath(WalkOps[j].rel)) # <<>>


(***************************************************************************)
(* C20.  Two capabilities that ship the same file.                         *)
(***************************************************************************)
CapIndex(name) == CHOOSE n \in DOMAIN capabilities : capabilities[n].name = name

\* the files that more than one loaded capability ships
SharedFiles ==
    {p \in MaterializedFiles :
        \E m, n \in DOMAIN capabilities :
            m # n /\ p \in TemplatesOf(capabilities[m])
                  /\ p \in TemplatesOf(capabilities[n])}

\* C20: once the config phase is complete, a file shipped by two
\* capabilities holds the rendering of the capability that is later in the
\* list, made with that capability's vars; and at any time every mode or
\* owner change of a capability is logged before every directory or file
\* operation of a capability that comes later in the list
C20_LaterCapabilityWins ==
    /\ pc \in {"services", "done"} =>
           \A p \in SharedFiles :
               /\ IsFile(fs, p)
               /\ fs[p].content = LastRendering(p)
    /\ \A a, b \in DOMAIN ops :
           (/\ ops[a].op \in {"chmod", "chown"}
            /\ ops[b].op \in {"makedirs", "write"}
            /\ CapIndex(ops[a].cap) < CapIndex(ops[b].cap)) => a < b

\* the config phase is complete for two capabilities that ship the same
\* file with different renderings; the first one's mode override is logged
C20_Witness ==
    /\ pc = "services"
    /\ Len(capabilities) = 2
    /\ SharedFiles # {}
    /\ \E p \in SharedFiles :
          fs[p].content #
              render(capability_path(capabilities[1].name).templates[p],
                     Get(capabilities[1], "vars", <<>>))
    /\ \E n \in DOMAIN ops :
          ops[n].op = "chmod" /\ ops[n].cap = capabilities[1].name

====
